---- MODULE Spec2Model ----
(***************************************************************************)
(* Model of assets/icons/convert_to_dds.py: the three-stage icon pipeline  *)
(*   stage 1  convert_svgs_to_pngs   svg/*.svg  -> pngs/*.png  (magick)    *)
(*   stage 2  convert_pngs_to_dds    pngs/*.png -> dds/*.dds   (texconv)   *)
(*   stage 3  copy_to_mod_folder     dds/*.dds  -> MOD_TEXTURES_DIR        *)
(* and of main(), which calls them in that order.                          *)
(*                                                                         *)
(* The state is the four directories plus the locals of the function that  *)
(* is running.  Every subprocess.run call is one step with one of the four *)
(* outcomes the code tells apart: return code 0, return code # 0,          *)
(* FileNotFoundError, any other Exception.  mkdir and shutil.copy2 either  *)
(* succeed or raise; nothing in the file catches what they raise.          *)
(*                                                                         *)
(* The functions are module-level, so a caller may run main() or one stage *)
(* function on its own, repeatedly; fn records which one this behaviour    *)
(* exercises.                                                              *)
(***************************************************************************)
EXTENDS Integers, Sequences, FiniteSets, TLC

\* ---------------------------------------------------------------- bounds
\* Stems available when one stage function is called on its own.
NumStems == 3
\* Stems available when main() is run.
MainStems == 2
\* How many times the caller runs the function under test.
MaxRuns == 2

Stems == 1..NumStems

\* ---------------------------------------------------------- file contents
\* A directory is a map from file name to content; Absent is "no such file".
Absent == <<>>
\* Contents that pre-date every run of the script.
OldPng == <<"png", "old">>
OldDds == <<"dds", "old">>
OldDeployed == <<"dds", "deployed">>
OldText == <<"txt", "old">>

\* Names in the raster directory are the stems (pngs/<stem>.png); names in
\* the compressed-output and destination directories carry their extension,
\* because copy_to_mod_folder globs on it.
DdsName(s) == <<s, "dds">>
OtherFile == <<1, "txt">>
DdsDirNames == {DdsName(s) : s \in Stems} \cup {OtherFile}

VARIABLES
    fn,         \* what the caller runs: "main", "s1", "s2" or "s3"
    run,        \* number of runs started
    pc,         \* control location
    svg,        \* svg/ : the stems s with a file <s>.svg
    png,        \* pngs/ : stem -> content of <s>.png
    dds,        \* dds/ : name -> content
    mod,        \* MOD_TEXTURES_DIR : name -> content
    todo,       \* files the running loop has not reached yet
    converted,  \* local of stage 1 and of stage 2
    skipped,    \* local of stage 1
    copied,     \* local of stage 3
    ret,        \* value the last stage function returned
    counts,     \* main's locals <<svg_count, dds_count, copy_count>>
    \* ---- history, read by the properties only
    before,     \* the output directory of the running stage as it was on entry
    globbed,    \* the files the running stage's glob returned
    calls,      \* stem -> tool launches attempted in the running stage
    failed,     \* stems whose tool call ended non-zero or raised (not FileNotFoundError)
    aborted,    \* the file (if any) at which the running stage hit FileNotFoundError
    prevRet,    \* value the previous run returned (-1: there was none)
    prevCalls,  \* tool launches attempted in the previous run
    hist,       \* calls and returns of the stage functions, in order
    nf,         \* <<run, stage>> of every stage that hit FileNotFoundError
    clean       \* no tool call so far has failed

vars == <<fn, run, pc, svg, png, dds, mod, todo, converted, skipped, copied,
          ret, counts, before, globbed, calls, failed, aborted, prevRet,
          prevCalls, hist, nf, clean>>

fsVars == <<svg, png, dds, mod>>
localVars == <<todo, converted, skipped, copied>>
histVars == <<before, globbed, calls, failed, aborted, prevRet, prevCalls>>

\* ------------------------------------------------------------- helpers
RECURSIVE SumOver(_, _)
SumOver(f, S) ==
    IF S = {} THEN 0
    ELSE LET x == CHOOSE y \in S : TRUE IN f[x] + SumOver(f, S \ {x})

NoCalls == [s \in Stems |-> 0]
Present(dir) == {n \in DOMAIN dir : dir[n] # Absent}

\* The stems the caller's directories may hold before the first run.
StemsOf(f) == IF f = "main" THEN 1..MainStems ELSE Stems

\* ----------------------------------------------------------------- Init
\* Which of svg/<s>.svg, pngs/<s>.png, dds/<s>.dds and the deployed <s>.dds
\* exist, as one number.
Profile(s) ==
    (IF s \in svg THEN 8 ELSE 0) + (IF png[s] # Absent THEN 4 ELSE 0)
    + (IF dds[DdsName(s)] # Absent THEN 2 ELSE 0)
    + (IF mod[DdsName(s)] # Absent THEN 1 ELSE 0)

\* Any directory contents the function under test can meet; directories it
\* neither reads nor writes start empty.  No statement of the script reads a
\* stem, so the contents are listed up to renaming of stems (the loops below
\* take the globbed files in any order).
Init ==
    /\ fn \in {"main", "s1", "s2", "s3"}
    /\ run = 0
    /\ pc = "idle"
    /\ svg \in SUBSET StemsOf(fn)
    /\ fn \in {"s2", "s3"} => svg = {}
    /\ png \in [Stems -> {Absent, OldPng}]
    /\ \A s \in Stems : png[s] # Absent => s \in StemsOf(fn) /\ fn # "s3"
    /\ dds \in [DdsDirNames -> {Absent, OldDds, OldText}]
    /\ \A n \in DdsDirNames :
          /\ dds[n] = OldDds => n[2] = "dds" /\ n[1] \in StemsOf(fn) /\ fn # "s1"
          /\ dds[n] = OldText => n = OtherFile /\ fn = "s3"
    /\ mod \in [DdsDirNames -> {Absent, OldDeployed}]
    /\ \A n \in DdsDirNames :
          /\ mod[n] # Absent => n[1] \in StemsOf(fn) /\ fn \in {"s3", "main"}
          /\ mod[n] # Absent /\ n = OtherFile => fn = "s3"
    /\ \A s \in Stems : s + 1 \in Stems => Profile(s) >= Profile(s + 1)
    /\ todo = {}
    /\ converted = 0
    /\ skipped = 0
    /\ copied = 0
    /\ ret = 0
    /\ counts = <<0, 0, 0>>
    /\ before = png
    /\ globbed = {}
    /\ calls = NoCalls
    /\ failed = {}
    /\ aborted = {}
    /\ prevRet = -1
    /\ prevCalls = 0
    /\ hist = <<>>
    /\ nf = {}
    /\ clean = TRUE

\* ------------------------------------------------------------ the caller
\* The first statement each entry point reaches.  main() prints its banner
\* and calls convert_svgs_to_pngs.
EntryOf(f) ==
    CASE f = "main" -> "s1_enter"
      [] f = "s1" -> "s1_enter"
      [] f = "s2" -> "s2_enter"
      [] f = "s3" -> "s3_enter"

\* main() is run once; a stage function called on its own is called up to
\* MaxRuns times in a row.
RunsOf(f) == IF f = "main" THEN 1 ELSE MaxRuns

\* The caller starts a run of fn (python convert_to_dds.py, or a call of one
\* stage function).
Start ==
    /\ pc = "idle"
    /\ run < RunsOf(fn)
    /\ run' = run + 1
    /\ pc' = EntryOf(fn)
    /\ prevRet' = IF run = 0 THEN -1 ELSE ret
    /\ prevCalls' = SumOver(calls, Stems)
    /\ UNCHANGED <<fn, fsVars, localVars, ret, counts, before, globbed, calls,
                   failed, aborted, hist, nf, clean>>

\* What a stage entry records for the properties.
Enter(k, outdir, files) ==
    /\ before' = outdir
    /\ globbed' = files
    /\ calls' = NoCalls
    /\ failed' = {}
    /\ aborted' = {}
    /\ hist' = Append(hist, <<"enter", k>>)

\* An exception leaves the function that is running and, under main(), main
\* itself: nothing catches it.
Raise ==
    /\ pc' = "crashed"
    /\ UNCHANGED <<fn, run, fsVars, localVars, ret, counts, histVars, nf, clean>>

\* ---------------------------------------------------------------- stage 1
\* A stage 1 without the existence check: every source is converted.
PngExistsIgnored(s) == FALSE

\* A stage 1 that skips only what this call has produced itself.
PngExistsFresh(s) == png[s] = <<"png", "new">>

\* line 45: if png_path.exists()
PngExists(s) == png[s] # Absent

\* What magick writes at png_path when it returns 0.
Rendered == <<"png", "new">>

\* line 31: svg_dir.glob("*.svg")
GlobSvg == svg

\* lines 28-38: both mkdir calls succeed; glob; the empty case returns 0.
S1Enter ==
    /\ pc = "s1_enter"
    /\ Enter(1, png, GlobSvg)
    /\ todo' = GlobSvg
    /\ IF GlobSvg = {}
          THEN pc' = "s1_ret" /\ ret' = 0 /\ UNCHANGED <<converted, skipped>>
          ELSE pc' = "s1_loop" /\ ret' = ret /\ converted' = 0 /\ skipped' = 0
    /\ UNCHANGED <<fn, run, fsVars, copied, counts, prevRet, prevCalls, nf, clean>>

\* lines 28-29: svg_dir.mkdir or png_dir.mkdir raises.
S1MkdirRaises ==
    /\ pc = "s1_enter"
    /\ hist' = Append(hist, <<"enter", 1>>)
    /\ Raise

\* What is left unchanged by one iteration of a conversion loop.
LoopFrame == UNCHANGED <<fn, run, svg, mod, copied, counts, before, globbed,
                         prevRet, prevCalls, hist>>

\* The tool is launched for file s of the running stage.
Launch(s) == calls' = [calls EXCEPT ![s] = @ + 1]

\* A loop that counts a file before looking at the return code.
CountAfterFailureAnyway(c) == c + 1

\* lines 66-67, 73-74 and 117-118, 124-125: a failed file is reported and
\* the count is left as it was.
CountAfterFailure(c) == c

\* A loop that gives up at the first file the tool fails on.
PcAfterFailureReturn(k) == IF k = 1 THEN "s1_ret" ELSE "s2_ret"

\* lines 66-67, 73-74 and 117-118, 124-125: after a failed file the loop
\* goes on with the next one.
PcAfterFailure(k) == IF k = 1 THEN "s1_loop" ELSE "s2_loop"

\* lines 69-72 and 120-123: FileNotFoundError returns from the stage.
PcAfterNotFound(k) == IF k = 1 THEN "s1_ret" ELSE "s2_ret"

\* lines 40-47: the raster exists, the source is skipped.
S1Skip ==
    /\ pc = "s1_loop"
    /\ \E s \in todo :
          /\ PngExists(s)
          /\ skipped' = skipped + 1
          /\ todo' = todo \ {s}
    /\ UNCHANGED <<pc, png, dds, converted, ret, calls, failed, aborted, nf, clean>>
    /\ LoopFrame

\* lines 52-65: magick runs and returns 0; the raster is written.
S1MagickOk ==
    /\ pc = "s1_loop"
    /\ \E s \in todo :
          /\ ~PngExists(s)
          /\ Launch(s)
          /\ png' = [png EXCEPT ![s] = Rendered]
          /\ todo' = todo \ {s}
    /\ converted' = converted + 1
    /\ UNCHANGED <<pc, dds, skipped, ret, failed, aborted, nf, clean>>
    /\ LoopFrame

\* lines 52-62, 66-67: magick runs and returns non-zero.
S1MagickErr ==
    /\ pc = "s1_loop"
    /\ \E s \in todo :
          /\ ~PngExists(s)
          /\ Launch(s)
          /\ failed' = failed \cup {s}
          /\ todo' = todo \ {s}
    /\ converted' = CountAfterFailure(converted)
    /\ clean' = FALSE
    /\ pc' = PcAfterFailure(1)
    /\ UNCHANGED <<png, dds, skipped, ret, aborted, nf>>
    /\ LoopFrame

\* lines 52-62, 73-74: subprocess.run raises something other than
\* FileNotFoundError.
S1MagickRaises ==
    /\ pc = "s1_loop"
    /\ \E s \in todo :
          /\ ~PngExists(s)
          /\ Launch(s)
          /\ failed' = failed \cup {s}
          /\ todo' = todo \ {s}
    /\ converted' = CountAfterFailure(converted)
    /\ clean' = FALSE
    /\ pc' = PcAfterFailure(1)
    /\ UNCHANGED <<png, dds, skipped, ret, aborted, nf>>
    /\ LoopFrame

\* lines 52-62, 69-72: magick.exe cannot be launched; return converted.
S1MagickNotFound ==
    /\ pc = "s1_loop"
    /\ \E s \in todo :
          /\ ~PngExists(s)
          /\ Launch(s)
          /\ aborted' = {s}
          /\ todo' = todo \ {s}
    /\ nf' = nf \cup {<<run, 1>>}
    /\ clean' = FALSE
    /\ pc' = PcAfterNotFound(1)
    /\ ret' = converted
    /\ UNCHANGED <<png, dds, converted, skipped, failed>>
    /\ LoopFrame

\* lines 76-79: the loop is over; the skipped line is printed; return converted.
S1Return ==
    /\ pc = "s1_loop"
    /\ todo = {}
    /\ pc' = "s1_ret"
    /\ ret' = converted
    /\ UNCHANGED <<png, dds, todo, converted, skipped, calls, failed, aborted, nf, clean>>
    /\ LoopFrame

\* ---------------------------------------------------------------- stage 2
\* What texconv -f BC7_UNORM -y -o dds_dir writes at dds/<stem>.dds when it
\* returns 0: the compressed form of the raster it was given.
Compress(c) == <<"dds">> \o c

\* A stage 2 with the presence check of stage 1: rasters that already have
\* a compressed output are left out.
GlobPngUncached == {s \in Present(png) : dds[DdsName(s)] = Absent}

\* A stage 2 that lists the rasters as they were before stage 1 ran.
GlobPngEarly == IF fn = "main" THEN Present(before) ELSE Present(png)

\* line 85: png_dir.glob("*.png")
GlobPng == Present(png)

\* lines 84-92: mkdir succeeds; glob; the empty case returns 0.
S2Enter ==
    /\ pc = "s2_enter"
    /\ Enter(2, dds, GlobPng)
    /\ todo' = GlobPng
    /\ IF GlobPng = {}
          THEN pc' = "s2_ret" /\ ret' = 0 /\ converted' = converted
          ELSE pc' = "s2_loop" /\ ret' = ret /\ converted' = 0
    /\ UNCHANGED <<fn, run, fsVars, skipped, copied, counts, prevRet, prevCalls, nf, clean>>

\* line 84: dds_dir.mkdir raises.
S2MkdirRaises ==
    /\ pc = "s2_enter"
    /\ hist' = Append(hist, <<"enter", 2>>)
    /\ Raise

\* lines 102-116: texconv runs and returns 0; dds/<stem>.dds is (over)written.
S2TexconvOk ==
    /\ pc = "s2_loop"
    /\ \E s \in todo :
          /\ Launch(s)
          /\ dds' = [dds EXCEPT ![DdsName(s)] = Compress(png[s])]
          /\ todo' = todo \ {s}
    /\ converted' = converted + 1
    /\ UNCHANGED <<pc, png, skipped, ret, failed, aborted, nf, clean>>
    /\ LoopFrame

\* lines 102-112, 117-118: texconv runs and returns non-zero.
S2TexconvErr ==
    /\ pc = "s2_loop"
    /\ \E s \in todo :
          /\ Launch(s)
          /\ failed' = failed \cup {s}
          /\ todo' = todo \ {s}
    /\ converted' = CountAfterFailure(converted)
    /\ clean' = FALSE
    /\ pc' = PcAfterFailure(2)
    /\ UNCHANGED <<png, dds, skipped, ret, aborted, nf>>
    /\ LoopFrame

\* lines 102-112, 124-125: subprocess.run raises something other than
\* FileNotFoundError.
S2TexconvRaises ==
    /\ pc = "s2_loop"
    /\ \E s \in todo :
          /\ Launch(s)
          /\ failed' = failed \cup {s}
          /\ todo' = todo \ {s}
    /\ converted' = CountAfterFailure(converted)
    /\ clean' = FALSE
    /\ pc' = PcAfterFailure(2)
    /\ UNCHANGED <<png, dds, skipped, ret, aborted, nf>>
    /\ LoopFrame

\* lines 102-112, 120-123: texconv cannot be launched; return converted.
S2TexconvNotFound ==
    /\ pc = "s2_loop"
    /\ \E s \in todo :
          /\ Launch(s)
          /\ aborted' = {s}
          /\ todo' = todo \ {s}
    /\ nf' = nf \cup {<<run, 2>>}
    /\ clean' = FALSE
    /\ pc' = PcAfterNotFound(2)
    /\ ret' = converted
    /\ UNCHANGED <<png, dds, converted, skipped, failed>>
    /\ LoopFrame

\* line 127: the loop is over; return converted.
S2Return ==
    /\ pc = "s2_loop"
    /\ todo = {}
    /\ pc' = "s2_ret"
    /\ ret' = converted
    /\ UNCHANGED <<png, dds, todo, converted, skipped, calls, failed, aborted, nf, clean>>
    /\ LoopFrame

\* ---------------------------------------------------------------- stage 3
\* line 139: dds_dir.glob("*.dds")
GlobDds == {n \in Present(dds) : n[2] = "dds"}

\* A copy that keeps a destination file that is already there.
Copy2IfMissing(dir, n, c) == IF dir[n] = Absent THEN [dir EXCEPT ![n] = c] ELSE dir

\* line 141: shutil.copy2(dds_path, dest) writes the source's bytes at dest,
\* over whatever is there.
Copy2(dir, n, c) == [dir EXCEPT ![n] = c]

\* lines 132-136: mkdir succeeds; copied = 0; the glob starts.
S3Enter ==
    /\ pc = "s3_enter"
    /\ Enter(3, mod, GlobDds)
    /\ todo' = GlobDds
    /\ copied' = 0
    /\ pc' = "s3_loop"
    /\ UNCHANGED <<fn, run, fsVars, converted, skipped, ret, counts, prevRet,
                   prevCalls, nf, clean>>

\* line 132: mod_dir.mkdir raises.
S3MkdirRaises ==
    /\ pc = "s3_enter"
    /\ hist' = Append(hist, <<"enter", 3>>)
    /\ Raise

\* lines 139-143: one file is copied.
S3Copy ==
    /\ pc = "s3_loop"
    /\ \E n \in todo :
          /\ mod' = Copy2(mod, n, dds[n])
          /\ todo' = todo \ {n}
    /\ copied' = copied + 1
    /\ UNCHANGED <<fn, run, pc, svg, png, dds, converted, skipped, ret, counts,
                   histVars, hist, nf, clean>>

\* line 141: shutil.copy2 raises.
S3CopyRaises ==
    /\ pc = "s3_loop"
    /\ todo # {}
    /\ hist' = hist
    /\ Raise

\* line 145: return copied.
S3Return ==
    /\ pc = "s3_loop"
    /\ todo = {}
    /\ pc' = "s3_ret"
    /\ ret' = copied
    /\ UNCHANGED <<fn, run, fsVars, localVars, counts, histVars, hist, nf, clean>>

\* ------------------------------------------------------------------ main
\* A main() that deploys before it compresses.
MainNextDeployFirst(k) ==
    CASE k = 1 -> "s3_enter"
      [] k = 3 -> "s2_enter"
      [] k = 2 -> "done"

\* lines 162-176: where main() goes when stage k has returned.
MainNext(k) ==
    CASE k = 1 -> "s2_enter"
      [] k = 2 -> "s3_enter"
      [] k = 3 -> "done"

StageOfPc == CASE pc = "s1_ret" -> 1 [] pc = "s2_ret" -> 2 [] pc = "s3_ret" -> 3

\* Stage k has returned to its caller.  main() stores the count (lines 162,
\* 167, 172) and goes on to the next stage, or prints the summary (lines
\* 174-176); a direct caller has the return value.
StageReturned ==
    /\ pc \in {"s1_ret", "s2_ret", "s3_ret"}
    /\ hist' = Append(hist, <<"return", StageOfPc>>)
    /\ IF fn = "main"
          THEN /\ counts' = [counts EXCEPT ![StageOfPc] = ret]
               /\ pc' = MainNext(StageOfPc)
          ELSE /\ counts' = counts
               /\ pc' = "idle"
    /\ UNCHANGED <<fn, run, fsVars, localVars, ret, histVars, nf, clean>>

Next ==
    \/ Start
    \/ S1Enter
    \/ S1MkdirRaises
    \/ S1Skip
    \/ S1MagickOk
    \/ S1MagickErr
    \/ S1MagickRaises
    \/ S1MagickNotFound
    \/ S1Return
    \/ S2Enter
    \/ S2MkdirRaises
    \/ S2TexconvOk
    \/ S2TexconvErr
    \/ S2TexconvRaises
    \/ S2TexconvNotFound
    \/ S2Return
    \/ S3Enter
    \/ S3MkdirRaises
    \/ S3Copy
    \/ S3CopyRaises
    \/ S3Return
    \/ StageReturned

Spec == Init /\ [][Next]_vars

\* ======================================================== properties
\* The running (or just returned) stage, read off the control location.
InStage(k) ==
    CASE k = 1 -> pc \in {"s1_loop", "s1_ret"}
      [] k = 2 -> pc \in {"s2_loop", "s2_ret"}
      [] k = 3 -> pc \in {"s3_loop", "s3_ret"}

\* Files of the running conversion stage for which the tool returned 0.
OkFiles == {s \in Stems : calls[s] > 0 /\ s \notin failed /\ s \notin aborted}

\* Sources stage 1 found already rasterized when it was entered.
Cached == {s \in svg : before[s] # Absent}

\* Rasters that exist now and did not when stage 1 was entered.
NewRasters == {s \in Stems : before[s] = Absent /\ png[s] # Absent}

\* The *.dds files of the compressed-output directory.
DdsFiles == {n \in Present(dds) : n[2] = "dds"}

Called(k) == \E i \in 1..Len(hist) : hist[i] = <<"enter", k>>

\* ------------------------------------------------------------------- C1
\* C1: while stage 1 runs and when it has returned, every source whose
\* raster existed when the stage was entered has had no launch of magick and
\* its raster still has the content it had on entry, whatever happened to
\* the other sources.
C1_CachedRasterUntouched ==
    InStage(1) =>
        \A s \in Cached : calls[s] = 0 /\ png[s] = before[s]

\* Stage 1 has returned with one source cached, one converted and one failed.
C1_Witness ==
    /\ pc = "s1_ret"
    /\ \E s \in Cached : png[s] = OldPng
    /\ NewRasters # {}
    /\ failed # {}

RasterFiles == Present(png)

\* The previous call of the same stage hit FileNotFoundError.
PrevAborted(k) == <<run - 1, k>> \in nf

\* C2 as stated: when stage 2 has returned, texconv has been launched
\* exactly once for every raster file; when it was the second call in a row,
\* it launched as often as the first and the compressed-output directory
\* holds no more files than on entry.
C2_EveryRasterOncePerRun ==
    pc = "s2_ret" =>
        /\ \A s \in RasterFiles : calls[s] = 1
        /\ (fn = "s2" /\ run >= 2) =>
              /\ SumOver(calls, Stems) = prevCalls
              /\ Cardinality(Present(dds)) <= Cardinality(Present(before))

\* C2 as amended: stage 2 never launches texconv twice for a raster file in
\* one call, and launches it only for raster files; a call that is not cut
\* short by FileNotFoundError launches it exactly once for every raster file,
\* also for those whose compressed output exists on entry; a second such
\* call launches as often as the first when that one was not cut short
\* either; and a second call adds no compressed output when the first
\* converted every raster file (each success overwrites <stem>.dds).
C2_EveryRasterOnceUnlessToolMissing ==
    InStage(2) =>
        /\ \A s \in Stems : calls[s] <= 1 /\ (calls[s] = 1 => s \in RasterFiles)
        /\ (pc = "s2_ret" /\ aborted = {}) => \A s \in RasterFiles : calls[s] = 1
        /\ (fn = "s2" /\ run >= 2 /\ pc = "s2_ret" /\ aborted = {} /\ ~PrevAborted(2))
              => SumOver(calls, Stems) = prevCalls
        /\ (fn = "s2" /\ run >= 2 /\ prevRet = Cardinality(RasterFiles))
              => Present(dds) = Present(before)
        /\ Present(dds) \subseteq Present(before) \cup {DdsName(s) : s \in OkFiles}

\* The second call in a row has returned, neither call was cut short, and a
\* raster whose compressed output existed on entry was converted again.
C2_Witness ==
    /\ fn = "s2"
    /\ run = 2
    /\ pc = "s2_ret"
    /\ aborted = {}
    /\ ~PrevAborted(2)
    /\ Cardinality(RasterFiles) >= 2
    /\ prevCalls = Cardinality(RasterFiles)
    /\ prevRet = Cardinality(RasterFiles)
    /\ \E s \in OkFiles : before[DdsName(s)] # Absent

\* ------------------------------------------------------------------- C5
\* The files the running conversion stage has to convert: the sources
\* without a raster on entry (stage 1), every raster file (stage 2).
Eligible == IF InStage(1) THEN svg \ Cached ELSE RasterFiles

\* C5 as stated: when a conversion stage has returned and the tool failed
\* for some file (non-zero status, or an exception other than
\* FileNotFoundError), that file is not counted, every other eligible file
\* has been attempted, and the returned count is the number of files for
\* which the tool returned 0.
C5_FailureIsolated ==
    (pc \in {"s1_ret", "s2_ret"} /\ failed # {}) =>
        /\ ret = Cardinality(OkFiles)
        /\ \A s \in Eligible : calls[s] > 0

\* C5 as amended: the returned count is the number of files for which the
\* tool returned 0, a failed file is not among them (in stage 1 it has no
\* raster), and every other eligible file has been attempted unless the
\* stage was cut short by FileNotFoundError at one of them.
C5_FailureIsolatedUnlessToolMissing ==
    (InStage(1) \/ InStage(2)) =>
        /\ converted = Cardinality(OkFiles)
        /\ OkFiles \cap failed = {}
        /\ InStage(1) => \A s \in failed : png[s] = Absent
        /\ pc \in {"s1_ret", "s2_ret"} =>
              /\ globbed # {} => ret = Cardinality(OkFiles)
              /\ (failed # {} /\ aborted = {}) => \A s \in Eligible : calls[s] = 1
              /\ aborted # {} => \A s \in failed : calls[s] = 1

\* A conversion stage has returned: of three eligible files one failed and
\* the other two were attempted and converted.
C5_Witness ==
    /\ pc \in {"s1_ret", "s2_ret"}
    /\ Cardinality(failed) = 1
    /\ aborted = {}
    /\ Cardinality(Eligible) = 3
    /\ ret = 2
    /\ \A s \in Eligible : calls[s] = 1

\* ------------------------------------------------------------------- C7
\* C7 as stated: when stage 3 has returned, every file of the
\* compressed-output directory has a same-named copy with the same content in
\* the destination, and the returned count is the number of files there.
C7_EveryFileDeployed ==
    pc = "s3_ret" =>
        /\ \A n \in Present(dds) : mod[n] = dds[n]
        /\ ret = Cardinality(Present(dds))

\* C7 as amended: when stage 3 has returned, every file of the
\* compressed-output directory whose name matches *.dds has a same-named copy
\* with the same content in the destination, also when a file of that name
\* was there before; every other destination file is as it was; and the
\* returned count is the number of *.dds files.
C7_EveryDdsFileDeployed ==
    pc = "s3_ret" =>
        /\ \A n \in DdsFiles : mod[n] = dds[n]
        /\ \A n \in DdsDirNames \ DdsFiles : mod[n] = before[n]
        /\ ret = Cardinality(DdsFiles)

\* Stage 3 has returned after copying over a file that was deployed before,
\* with a file of another extension present in the compressed-output
\* directory.
C7_Witness ==
    /\ pc = "s3_ret"
    /\ ret >= 2
    /\ dds[OtherFile] # Absent
    /\ \E n \in DdsFiles : before[n] = OldDeployed /\ mod[n] = OldDds

\* ------------------------------------------------------------------- C3
\* C3: under main(), no outcome of a tool call or a file operation lets an
\* exception leave main().
C3_NoExceptionEscapesMain ==
    fn = "main" => pc # "crashed"

\* ------------------------------------------------------------------- C4
\* main() is over: it printed its summary line or an exception left it.
MainOver == fn = "main" /\ pc \in {"done", "crashed"}

\* C4: when a conversion stage has hit FileNotFoundError, it has returned the
\* count reached so far with no launch for any file it had not reached; and
\* when main() is over, every stage after one that hit FileNotFoundError has
\* been called.
C4_ToolMissingEndsStageOnly ==
    /\ (InStage(1) \/ InStage(2)) /\ aborted # {} =>
          /\ pc \in {"s1_ret", "s2_ret"}
          /\ ret = Cardinality(OkFiles)
          /\ \A s \in todo : calls[s] = 0
    /\ (MainOver /\ <<run, 1>> \in nf) => Called(2) /\ Called(3)
    /\ (MainOver /\ <<run, 2>> \in nf) => Called(3)

\* ------------------------------------------------------------------- C9
\* The calls and returns of one run of main(), in order.
MainOrder ==
    << <<"enter", 1>>, <<"return", 1>>, <<"enter", 2>>, <<"return", 2>>,
       <<"enter", 3>>, <<"return", 3>> >>

\* How many of these events lie behind each control location of main().
EventsAt(p) ==
    CASE p \in {"idle", "s1_enter"} -> {0}
      [] p \in {"s1_loop", "s1_ret"} -> {1}
      [] p = "s2_enter" -> {2}
      [] p \in {"s2_loop", "s2_ret"} -> {3}
      [] p = "s3_enter" -> {4}
      [] p \in {"s3_loop", "s3_ret"} -> {5}
      [] p = "done" -> {6}
      [] p = "crashed" -> {1, 3, 5}

\* C9: under main() the stage functions are called in the order 1, 2, 3,
\* each after the one before it has returned: wherever magick can be
\* launched stage 2 has not been called, and wherever texconv can be
\* launched stage 1 has returned and stage 3 has not been called, and
\* wherever a file can be copied stages 1 and 2 have returned.
C9_StagesInOrder ==
    fn = "main" =>
        /\ Len(hist) \in EventsAt(pc)
        /\ hist = SubSeq(MainOrder, 1, Len(hist))

\* main() has printed its summary after every stage did some work.
C9_Witness ==
    /\ fn = "main"
    /\ pc = "done"
    /\ counts[1] > 0
    /\ counts[2] > 0
    /\ counts[3] > 0

\* ------------------------------------------------------------------ C10
\* C10: when main() has printed its summary and no tool call failed, every
\* source has a raster, a compressed output made from that raster, and a
\* deployed copy equal to the compressed output.
C10_EndToEnd ==
    (fn = "main" /\ pc = "done" /\ clean) =>
        \A s \in svg :
            /\ png[s] # Absent
            /\ dds[DdsName(s)] = Compress(png[s])
            /\ mod[DdsName(s)] = dds[DdsName(s)]

\* A run that rasterized one source itself and found another one cached,
\* with older compressed and deployed files in place.
C10_Witness ==
    /\ fn = "main"
    /\ pc = "done"
    /\ clean
    /\ \E s \in svg : png[s] = Rendered /\ mod[DdsName(s)] = Compress(Rendered)
    /\ \E s \in svg : png[s] = OldPng /\ mod[DdsName(s)] = Compress(OldPng)
    /\ counts = <<1, 2, 2>>
====
